---------------------------- MODULE Spec2Model ----------------------------
(***************************************************************************)
(* State-machine model of the Flappy PlushPepe game loop of                *)
(* src/src/components/GameCanvas.js (lines 1-1055): the tick handler       *)
(* (loop/update), the input handler (flap/resetGame), the terminal         *)
(* transition (handleGameOver) and the gap generator (randomGapY).         *)
(*                                                                         *)
(* Units.  The source computes in IEEE doubles; the model computes the     *)
(* same expressions exactly, in integers:                                  *)
(*   positions (x, y, gapY)   1/80 px     (Px(n) is n px)                  *)
(*   velocities               1/10 px per frame                            *)
(*   rotation                 1/10 degree                                  *)
(*   frame delta              1/1000 ms                                    *)
(*   effect timer             1/10 frame                                   *)
(*   Math.random()            1/10 (a draw d stands for d/10)              *)
(* The frame deltas the model draws are those for which every product      *)
(* with timeStep = delta / 16.67 is a whole number of these units; SpecClock *)
(* also draws the 32 ms cap, and says how it rounds.  The rounding of the  *)
(* doubles themselves is modelled for the pipe positions, in SpecScroll.   *)
(***************************************************************************)
EXTENDS Integers, Sequences, FiniteSets

VARIABLES
    gameState,      \* React state: "ready" | "playing" | "gameover"
    gameStateRef,   \* gameStateRef.current, what flap() and update() read
    plushpepe,      \* plushpepe.current: [y, vel, rot]
    pipes,          \* pipes.current: sequence of [x, gapY, scored]
    globalScore,    \* module-level score
    highScore,      \* React state of useState(loadedScore)
    storedBest,     \* localStorage entry 'best' (NoItem when absent)
    fartTimer,      \* fartTimer.current
    fartVisible,    \* fartVisible.current
    sessionTicks,   \* bookkeeping: physics ticks since construction / reset
    staleTicks,     \* bookkeeping: ticks since a setGameState not yet rendered
    restarts,       \* bookkeeping: number of resetGame calls
    storageMode,    \* localStorage: "ok" | "readonly" (setItem throws)
                    \*   | "blocked" (getItem and setItem throw)
    loopState,      \* "running" (loop re-armed, listeners attached)
                    \*   | "remounted" (the effect's cleanup and the effect
                    \*     have run again)
                    \*   | "stopped" (an exception left loop() before line 584)
                    \*   | "unmounted" (the component function threw)
    last,           \* bookkeeping: what the last handler did; calls is its
                    \*   place among the handlers called for one event,
                    \*   recycled are
                    \*   the pipes the first forEach recycled, tested the
                    \*   pipes the second forEach went over, delta the
                    \*   capped frame delta of line 564 (1/1000 ms)
    gapCall         \* bookkeeping: one call of randomGapY, [prev, v, d, out]

vars == <<gameState, gameStateRef, plushpepe, pipes, globalScore, highScore,
          storedBest, fartTimer, fartVisible, sessionTicks, staleTicks,
          restarts, storageMode, loopState, last, gapCall>>

---------------------------------------------------------------------------
(* Bounds of the model *)

\* physics ticks modelled per play session
MaxTicks == 258
\* calls of resetGame modelled
MaxRestarts == 1
\* ticks that may run between a setGameState call and the re-render that
\* copies the new state into gameStateRef.current
MaxStale == 1
\* while playing, a jump input is delivered only on every TapEvery-th tick
TapEvery == 21

\* frame deltas (1/1000 ms) handed to loop(): 25.005 ms, timeStep = 1.5
Deltas == {25005}
\* outcomes of Math.random() for the variation tier, in tenths
TierDraws == {0, 2, 5}
\* outcomes of Math.random() for the gap position, in tenths
PosDraws == {6, 9}
\* previous-gap arguments (px) and draws of the gap generator's own
\* specification SpecGap
MaxGapArg == 700
GapTierDraws == {0, 2, 5}
GapPosDraws == {0, 3, 5, 7, 9}
\* the integration step on its own (SpecBody): ticks modelled per flight,
\* frame deltas of timeStep 0.5, 1 and 1.5, and the velocities (1/10 px per
\* frame) a body in flight starts from
MaxBodyTicks == 3
BodyDeltas == {8335, 16670, 25005}
\* contents of localStorage 'best' when the component is constructed
NoItem == -1
InitialStored == {NoItem, 1}
\* a 'best' entry that does not start with a number, such as "abc"
Garbage == -2
\* the number NaN (a value no score, position, velocity or timer takes)
NotANumber == -1000000
\* what SpecStore starts from: the entry, and how localStorage behaves
StoredAtStart == {NoItem, Garbage, 1}
StorageModes == {"ok", "readonly", "blocked"}

---------------------------------------------------------------------------
(* Constants of GameCanvas.js *)

Px(n) == 80 * n

V_WIDTH == 576
V_HEIGHT == 1024
GRAVITY == 4                \* 0.4 px/frame^2
JUMP_VELOCITY == -65        \* -6.5 px/frame
MAX_FALL_SPEED == 120       \* 12 px/frame
SCROLL_SPEED == 322         \* 4.025 px/frame = 322/80
PIPE_INTERVAL == 350
PIPE_GAP == 13000           \* 162.5 px
PLUSHPEPE_X == 160
PLUSHPEPE_SIZE == 96
PLUSHPEPE_HITBOX == 48
PIPE_WIDTH == 104
FART_DURATION == 300        \* 30 frames
FIXED_GROUND_HEIGHT == 224
MS_PER_FRAME == 16670       \* 16.67 ms
MAX_DELTA == 32000          \* 32 ms

Min(a, b) == IF a < b THEN a ELSE b
Max(a, b) == IF a > b THEN a ELSE b
Abs(a) == IF a < 0 THEN -a ELSE a

\* q * timeStep, with timeStep = delta / 16.67
StepMul(q, delta) == (q * delta) \div MS_PER_FRAME

---------------------------------------------------------------------------
(* calculatePepeManeuverability: 3 flaps simulated over 90 frames.         *)
(* position and travel in 1/10 px, velocity in 1/10 px per frame.          *)

\* one iteration of the for loop, on
\* st = [frame, position, velocity, flapsUsed, maxUp, maxDown]
ManeuverFrame(st) ==
    LET doFlap == st.frame % 18 = 0 /\ st.flapsUsed < 3
        v0 == IF doFlap THEN JUMP_VELOCITY ELSE st.velocity
        v1 == v0 + GRAVITY
        v2 == IF v1 > MAX_FALL_SPEED THEN MAX_FALL_SPEED ELSE v1
        p1 == st.position + v2
    IN [frame |-> st.frame + 1,
        flapsUsed |-> IF doFlap THEN st.flapsUsed + 1 ELSE st.flapsUsed,
        velocity |-> v2,
        position |-> p1,
        maxUp |-> IF p1 < st.maxUp THEN p1 ELSE st.maxUp,
        maxDown |-> IF p1 > st.maxDown THEN p1 ELSE st.maxDown]

\* n consecutive iterations of the loop, from the state st at frame st.frame.
\* The run is split in halves, the first half being evaluated before the
\* second starts, which keeps the evaluation shallow.
RECURSIVE ManeuverSim(_, _)
ManeuverSim(st, n) ==
    IF n = 0 THEN st
    ELSE IF n = 1 THEN ManeuverFrame(st)
    ELSE LET half == ManeuverSim(st, n \div 2)
         IN IF half.frame = st.frame + n \div 2
            THEN ManeuverSim(half, n - n \div 2)
            ELSE half

\* {climb, fall} in 1/80 px: |travel| * 0.85 and |travel| * 0.9
calculatePepeManeuverability ==
    LET oneAndHalfSecondFrames == 90
        t == ManeuverSim([frame |-> 0,
                          flapsUsed |-> 0,
                          velocity |-> 0,
                          position |-> 0,
                          maxUp |-> 0,
                          maxDown |-> 0],
                         oneAndHalfSecondFrames)
    IN [climb |-> (Abs(t.maxUp) * 8 * 85) \div 100,
        fall  |-> (Abs(t.maxDown) * 8 * 90) \div 100]

---------------------------------------------------------------------------
(* randomGapY *)

MIN_PIPE_SHAFT_HEIGHT == 80
SAFE_MARGIN == 50
ACTUAL_GROUND_Y == Px(V_HEIGHT - FIXED_GROUND_HEIGHT)
minGapY == Px(MIN_PIPE_SHAFT_HEIGHT + SAFE_MARGIN)
maxGapY_NoShaft == ACTUAL_GROUND_Y - PIPE_GAP
maxGapY == ACTUAL_GROUND_Y - PIPE_GAP - Px(MIN_PIPE_SHAFT_HEIGHT) - Px(SAFE_MARGIN)

MAX_UPWARD_DELTA_Uncapped == calculatePepeManeuverability.climb

MAX_UPWARD_DELTA == Min(Px(95), calculatePepeManeuverability.climb)
MAX_DOWNWARD_DELTA == Min(Px(100), calculatePepeManeuverability.fall)

\* the value standing for previousGapY = null
NoGap == -1

\* Math.floor of a position
FloorPx(s) == (s \div 80) * 80

\* Math.floor(lo + Math.random() * (hi - lo)) for the draw d/10
Sample(lo, hi, d) == FloorPx(lo + (d * (hi - lo)) \div 10)

\* finalRange for the tier draw v/10
FinalRange(prev, v, minReachableY, maxReachableY) ==
    IF v < 1 THEN [min |-> Max(minReachableY, prev - Px(30)),
                   max |-> Min(maxReachableY, prev + Px(30))]
    ELSE IF v < 4 THEN [min |-> Max(minReachableY, prev - Px(60)),
                        max |-> Min(maxReachableY, prev + Px(60))]
    ELSE [min |-> minReachableY, max |-> maxReachableY]

\* the do-while loop: draw[n] is the position draw of attempt n; the loop
\* leaves at the first attempt whose target is 40 px or more away from prev,
\* and at attempt 20 whatever its target is
Resample(prev, range, draw) ==
    LET maxAttempts == 20
        target(n) == Sample(range.min, range.max, draw[n])
        repeats(n) == Abs(target(n) - prev) < Px(40) /\ n < maxAttempts
        attempts == CHOOSE n \in 1..maxAttempts :
                        /\ ~repeats(n)
                        /\ \A m \in 1..(n - 1) : repeats(m)
    IN target(attempts)

ForceDelta_Skipped(prev, target, minReachableY, maxReachableY) == target

\* "If we couldn't meet the 40px requirement, force it"
ForceDelta(prev, target, minReachableY, maxReachableY) ==
    IF Abs(target - prev) < Px(40)
    THEN IF prev - Px(40) >= minReachableY THEN prev - Px(40)
         ELSE IF prev + Px(40) <= maxReachableY THEN prev + Px(40)
         ELSE IF Abs(minReachableY - prev) > Abs(maxReachableY - prev)
              THEN minReachableY ELSE maxReachableY
    ELSE target

\* targetGapY before the final clamp
TargetGapY(prev, v, draw) ==
    IF prev # NoGap
    THEN LET minReachableY == Max(minGapY, prev - MAX_UPWARD_DELTA)
             maxReachableY == Min(maxGapY, prev + MAX_DOWNWARD_DELTA)
             range == FinalRange(prev, v, minReachableY, maxReachableY)
         IN ForceDelta(prev, Resample(prev, range, draw),
                       minReachableY, maxReachableY)
    ELSE LET safeRangeSize == maxGapY - minGapY
             middleStart == minGapY + safeRangeSize \div 4
             middleEnd == minGapY + (safeRangeSize * 3) \div 4
         IN Sample(middleStart, middleEnd, draw[1])

ClampGap_NoClamp(target) == target

\* "Clamp to absolute safe bounds"
ClampGap(target) == Max(minGapY, Min(maxGapY, target))

randomGapY(prev, v, draw) == ClampGap(TargetGapY(prev, v, draw))

\* the draw sequences the model uses: the same outcome on every attempt
\* (a draw that passes is taken at attempt 1, one that fails fails 20 times)
DrawSeqs == {[n \in 1..20 |-> d] : d \in PosDraws}
\* one call of randomGapY consumes a tier draw and a draw sequence
Rnd == TierDraws \X DrawSeqs
gapOf(prev, r) == randomGapY(prev, r[1], r[2])


---------------------------------------------------------------------------
(* getPipeCollisionBounds and the overlap test of update() *)

getPipeCollisionBounds(pipe) ==
    LET margin == Px(2)
        groundStartY == Px(V_HEIGHT - FIXED_GROUND_HEIGHT)
    IN [topPipe |-> [left |-> pipe.x + margin,
                     right |-> pipe.x + Px(PIPE_WIDTH) - margin,
                     top |-> 0,
                     bottom |-> pipe.gapY - margin],
        bottomPipe |-> [left |-> pipe.x + margin,
                        right |-> pipe.x + Px(PIPE_WIDTH) - margin,
                        top |-> pipe.gapY + PIPE_GAP + margin,
                        bottom |-> groundStartY]]

Overlaps_Touching(l, r, t, b, box) ==
    /\ r >= box.left
    /\ l <= box.right
    /\ b >= box.top
    /\ t <= box.bottom

\* the four comparisons of topPipeCollision and of bottomPipeCollision
Overlaps(l, r, t, b, box) ==
    /\ r > box.left
    /\ l < box.right
    /\ b > box.top
    /\ t < box.bottom

\* topPipeCollision || bottomPipeCollision for the body at height y
PipeCollision(y, pipe) ==
    LET hitboxOffsetX == Px(PLUSHPEPE_SIZE - PLUSHPEPE_HITBOX) \div 2
        hitboxOffsetY == Px(PLUSHPEPE_SIZE - PLUSHPEPE_HITBOX) \div 2
        plushpepeLeft == Px(PLUSHPEPE_X) + hitboxOffsetX
        plushpepeRight == Px(PLUSHPEPE_X) + hitboxOffsetX + Px(PLUSHPEPE_HITBOX)
        plushpepeTop == y + hitboxOffsetY
        plushpepeBottom == y + hitboxOffsetY + Px(PLUSHPEPE_HITBOX)
        pipeBounds == getPipeCollisionBounds(pipe)
    IN \/ Overlaps(plushpepeLeft, plushpepeRight, plushpepeTop, plushpepeBottom,
                   pipeBounds.topPipe)
       \/ Overlaps(plushpepeLeft, plushpepeRight, plushpepeTop, plushpepeBottom,
                   pipeBounds.bottomPipe)

---------------------------------------------------------------------------
(* handleGameOver *)

SaveBest_Always(currentScore, prev, stored) ==
    [highScore |-> currentScore, storedBest |-> currentScore, wrote |-> TRUE]

SaveBest_OrEqual(currentScore, prev, stored) ==
    IF currentScore >= prev
    THEN [highScore |-> currentScore, storedBest |-> currentScore, wrote |-> TRUE]
    ELSE [highScore |-> prev, storedBest |-> stored, wrote |-> FALSE]

\* the updater given to setHighScore, with its localStorage.setItem('best');
\* "currentScore > prev" is false when prev is NaN
SaveBest(currentScore, prev, stored) ==
    IF prev # NotANumber /\ currentScore > prev
    THEN [highScore |-> currentScore, storedBest |-> currentScore, wrote |-> TRUE]
    ELSE [highScore |-> prev, storedBest |-> stored, wrote |-> FALSE]

\* g = [gameState, highScore, storedBest, over, saved, threw]; the updater
\* runs in queue order, at the latest in the render that follows, so it is
\* applied here.  over and saved record that the call and the setItem
\* happened.  localStorage.setItem('test', ...) at line 492 comes first and is
\* not guarded: when it throws, nothing after it runs and threw records that the
\* exception is on its way out of update() and loop().
handleGameOver(g, currentScore) ==
    IF storageMode # "ok"
    THEN [g EXCEPT !.threw = TRUE]
    ELSE LET s == SaveBest(currentScore, g.highScore, g.storedBest)
         IN [gameState |-> "gameover",
             highScore |-> s.highScore,
             storedBest |-> s.storedBest,
             threw |-> g.threw,
             over |-> TRUE,
             saved |-> (g.saved \/ s.wrote)]

---------------------------------------------------------------------------
(* update(step): the pipe loops *)

\* pipes.current.reduce((rightmost, p) => p.x > rightmost.x ? p : rightmost, pipes[0])
RECURSIVE RightmostFrom(_, _, _)
RightmostFrom(ps, i, rightmost) ==
    IF i > Len(ps) THEN rightmost
    ELSE RightmostFrom(ps, i + 1, IF ps[i].x > rightmost.x THEN ps[i] ELSE rightmost)

RightmostPipe(ps) == RightmostFrom(ps, 1, ps[1])

\* the anchor handed to randomGapY when pipe i is recycled (its x already advanced)
RecycleAnchor(ps, i) == RightmostPipe(ps).gapY

ScoreHit_NoFlag(pipe) == pipe.x < Px(PLUSHPEPE_X) - Px(PLUSHPEPE_HITBOX) \div 2

\* "Score - check if plushpepe has passed through pipe"
ScoreHit(pipe) ==
    ~pipe.scored /\ pipe.x < Px(PLUSHPEPE_X) - Px(PLUSHPEPE_HITBOX) \div 2

\* "Recycle pipe"
NeedsRecycle(pipe) == pipe.x + Px(PIPE_WIDTH) < 0

PipeStep_NoRecycle(acc, i, dx, r) ==
    LET moved == [acc.pipes[i] EXCEPT !.x = @ - dx]
        hit == ScoreHit(moved)
        marked == IF hit THEN [moved EXCEPT !.scored = TRUE] ELSE moved
    IN [pipes |-> [acc.pipes EXCEPT ![i] = marked],
        score |-> IF hit THEN acc.score + 1 ELSE acc.score,
        recycled |-> acc.recycled]

\* one iteration of pipes.current.forEach (move, score, recycle) for index i
PipeStep(acc, i, dx, r) ==
    LET moved == [acc.pipes[i] EXCEPT !.x = @ - dx]
        hit == ScoreHit(moved)
        marked == IF hit THEN [moved EXCEPT !.scored = TRUE] ELSE moved
        score1 == IF hit THEN acc.score + 1 ELSE acc.score
        ps1 == [acc.pipes EXCEPT ![i] = marked]
    IN IF NeedsRecycle(marked)
       THEN LET ahead == [marked EXCEPT !.x = @ + Px(PIPE_INTERVAL) * Len(acc.pipes)]
                ps2 == [ps1 EXCEPT ![i] = ahead]
                fresh == [ahead EXCEPT !.gapY = gapOf(RecycleAnchor(ps2, i), r),
                                       !.scored = FALSE]
            IN [pipes |-> [ps2 EXCEPT ![i] = fresh], score |-> score1,
                recycled |-> acc.recycled \cup {i}]
       ELSE [pipes |-> ps1, score |-> score1, recycled |-> acc.recycled]

RECURSIVE PipeLoop(_, _, _, _)
PipeLoop(acc, i, dx, r) ==
    IF i > Len(acc.pipes) THEN acc
    ELSE PipeLoop(PipeStep(acc, i, dx, r), i + 1, dx, r)

CollisionLoop_Skipped(g, ps, i, y, score) == g

\* the second forEach: handleGameOver() for every pipe the body overlaps
RECURSIVE CollisionLoop(_, _, _, _, _)
CollisionLoop(g, ps, i, y, score) ==
    IF i > Len(ps) THEN g
    ELSE IF g.threw THEN g
    ELSE CollisionLoop(IF PipeCollision(y, ps[i]) THEN handleGameOver(g, score) ELSE g,
                       ps, i + 1, y, score)

\* whether some pipe would be recycled by a tick of horizontal travel dx
SomeRecycle(ps, dx) == \E i \in 1..Len(ps) : NeedsRecycle([ps[i] EXCEPT !.x = @ - dx])

---------------------------------------------------------------------------
(* update(step): body physics *)

Integrate_Tilted(p, delta) ==
    LET v1 == p.vel + StepMul(GRAVITY, delta)
        v2 == IF v1 > MAX_FALL_SPEED THEN MAX_FALL_SPEED ELSE v1
        y1 == p.y + StepMul(v2 * 8, delta) + p.rot \div 100
    IN [y |-> y1, vel |-> v2, rot |-> Max(-300, Min(900, v2 * 7))]

Integrate_NoClamp(p, delta) ==
    LET v1 == p.vel + StepMul(GRAVITY, delta)
        y1 == p.y + StepMul(v1 * 8, delta)
    IN [y |-> y1, vel |-> v1, rot |-> Max(-300, Min(900, v1 * 7))]

\* "PlushPepe physics" and "PlushPepe rotation", lines 635-640
Integrate(p, delta) ==
    LET v1 == p.vel + StepMul(GRAVITY, delta)
        v2 == IF v1 > MAX_FALL_SPEED THEN MAX_FALL_SPEED ELSE v1
        y1 == p.y + StepMul(v2 * 8, delta)
    IN [y |-> y1, vel |-> v2, rot |-> Max(-300, Min(900, v2 * 7))]

BoundaryHit_CeilingOnly(y) == y < 0

\* "Ground collision" and "Ceiling collision"
BoundaryHit(y) ==
    \/ y + Px(PLUSHPEPE_HITBOX) >= Px(V_HEIGHT - FIXED_GROUND_HEIGHT)
    \/ y < 0

\* the fart timer block at the top of update()
FartStep(timer, visible, delta) ==
    IF visible
    THEN LET t1 == timer - StepMul(10, delta)
         IN IF t1 <= 0 THEN [timer |-> 0, visible |-> FALSE]
            ELSE [timer |-> t1, visible |-> TRUE]
    ELSE [timer |-> timer, visible |-> visible]

TickRuns_UnlessOver == gameStateRef # "gameover"

\* the state update() tests at line 629
TickRuns == gameStateRef = "playing"


---------------------------------------------------------------------------
(* The component after construction *)

StartY == Px(V_HEIGHT \div 2 - 100)
StartBody == [y |-> StartY, vel |-> 0, rot |-> 0]

NewPipe(n, gap) == [x |-> Px(V_WIDTH + 50 + PIPE_INTERVAL * n), gapY |-> gap,
                    scored |-> FALSE]

\* useRef([...]) at lines 519-524: the third gap is anchored on a second call
\* randomGapY(firstGapY), not on the gap stored in the second pipe
InitialPipes(d1, r2, r2b, r3) ==
    LET firstGapY == randomGapY(NoGap, 0, d1)
    IN <<NewPipe(0, firstGapY),
         NewPipe(1, gapOf(firstGapY, r2)),
         NewPipe(2, gapOf(gapOf(firstGapY, r2b), r3))>>

ResetPipes_ThirdFromFirst(d1, r2, r3) ==
    LET resetFirstGapY == randomGapY(NoGap, 0, d1)
    IN <<NewPipe(0, resetFirstGapY),
         NewPipe(1, gapOf(resetFirstGapY, r2)),
         NewPipe(2, gapOf(resetFirstGapY, r3))>>

\* resetGame, lines 1031-1037
ResetPipes(d1, r2, r3) ==
    LET resetFirstGapY == randomGapY(NoGap, 0, d1)
        resetSecondGapY == gapOf(resetFirstGapY, r2)
    IN <<NewPipe(0, resetFirstGapY),
         NewPipe(1, resetSecondGapY),
         NewPipe(2, gapOf(resetSecondGapY, r3))>>

\* every outcome of the draws of the two constructions
InitialPipeSets ==
    {InitialPipes(d1, r2, r2b, r3) : d1 \in DrawSeqs, r2 \in Rnd, r2b \in Rnd, r3 \in Rnd}
ResetPipeSets ==
    {ResetPipes(d1, r2, r3) : d1 \in DrawSeqs, r2 \in Rnd, r3 \in Rnd}

\* useState initialiser, lines 353-359: saved ? parseInt(saved, 10) : 0.
\* getItem returns null for an absent entry; parseInt of a string that does
\* not start with a number is NaN; of the decimal string toString() wrote at
\* line 500 it is that number.
LoadBest(saved) ==
    IF saved = NoItem THEN 0
    ELSE IF saved = Garbage THEN NotANumber
    ELSE saved

Quiet(op) == [delta |-> 0,
              threw |-> FALSE,
              over |-> FALSE,
              saved |-> FALSE,
              recycled |-> {},
              op |-> op,
              ran |-> FALSE,
              tested |-> <<>>,
              calls |-> 1]

\* which of the handlers registered for one event this call is: after the
\* effect has run a second time two loops and two key listeners are
\* registered, and both are called for every frame and every key press
CallNo(op) ==
    IF loopState = "remounted" /\ last.op = op /\ last.calls = 1 THEN 2 ELSE 1

NoCall == [d |-> 0,
           prev |-> NoGap,
           v |-> 0,
           out |-> NoGap]

Init ==
    /\ gameState = "ready"
    /\ gameStateRef = "ready"
    /\ plushpepe = StartBody
    /\ pipes \in InitialPipeSets
    /\ globalScore = 0
    /\ storedBest \in InitialStored
    /\ highScore = LoadBest(storedBest)
    /\ fartTimer = 0
    /\ fartVisible = FALSE
    /\ sessionTicks = 0
    /\ staleTicks = 0
    /\ restarts = 0
    /\ storageMode = "ok"
    /\ loopState = "running"
    /\ last = Quiet("init")
    /\ gapCall = NoCall

---------------------------------------------------------------------------
(* loop(timestamp) -> update(timeStep) *)

\* the part of update() after the state test, for the render state g
PlayingTick(delta, r) ==
    LET body == Integrate(plushpepe, delta)
        g0 == [gameState |-> gameState,
               highScore |-> highScore,
               storedBest |-> storedBest,
               threw |-> FALSE,
               over |-> FALSE,
               saved |-> FALSE]
    IN /\ plushpepe' = body
       /\ sessionTicks' = sessionTicks + 1
       /\ IF BoundaryHit(body.y)
          THEN LET g1 == handleGameOver(g0, globalScore)
               IN /\ gameState' = g1.gameState
                  /\ highScore' = g1.highScore
                  /\ storedBest' = g1.storedBest
                  /\ loopState' = IF g1.threw THEN "stopped" ELSE loopState
                  /\ UNCHANGED <<pipes, globalScore>>
                  /\ last' = [delta |-> delta,
                              threw |-> g1.threw,
                              over |-> g1.over,
                              saved |-> g1.saved,
                              recycled |-> {},
                              op |-> "tick",
                              ran |-> TRUE,
                              tested |-> <<>>,
                              calls |-> CallNo("tick")]
          ELSE LET acc == PipeLoop([pipes |-> pipes, score |-> globalScore,
                                    recycled |-> {}],
                                   1, StepMul(SCROLL_SPEED, delta), r)
                   g1 == CollisionLoop(g0, acc.pipes, 1, body.y, acc.score)
               IN /\ pipes' = acc.pipes
                  /\ globalScore' = acc.score
                  /\ gameState' = g1.gameState
                  /\ highScore' = g1.highScore
                  /\ storedBest' = g1.storedBest
                  /\ loopState' = IF g1.threw THEN "stopped" ELSE loopState
                  /\ last' = [delta |-> delta,
                              threw |-> g1.threw,
                              over |-> g1.over,
                              saved |-> g1.saved,
                              recycled |-> acc.recycled,
                              op |-> "tick",
                              ran |-> TRUE,
                              tested |-> acc.pipes,
                              calls |-> CallNo("tick")]

LoopCall_Uncapped(D) ==
    \E delta \in D :
       LET f == FartStep(fartTimer, fartVisible, delta)
       IN /\ gameState = gameStateRef \/ staleTicks < MaxStale
          /\ fartTimer' = f.timer
          /\ fartVisible' = f.visible
          /\ staleTicks' = IF gameState # gameStateRef THEN staleTicks + 1 ELSE 0
          /\ UNCHANGED <<gameStateRef, restarts, storageMode, gapCall>>
          /\ IF TickRuns
             THEN /\ sessionTicks < MaxTicks
                  /\ \E r \in Rnd : PlayingTick(delta, r)
             ELSE /\ UNCHANGED <<gameState, plushpepe, pipes, globalScore,
                                 highScore, storedBest, sessionTicks, loopState>>
                  /\ last' = [Quiet("tick") EXCEPT !.delta = delta]

\* one call of loop() for which now - lastTime is one of the set D.  loop()
\* uses lastTime only in that difference, so the model keeps the time since
\* the previous callback and not the two timestamps; for the first callback
\* lastTime is 0 and the difference is the timestamp itself.
LoopCall(D) ==
    \E delta \in D :
       LET f == FartStep(fartTimer, fartVisible, Min(delta, MAX_DELTA))
       IN /\ gameState = gameStateRef \/ staleTicks < MaxStale
          /\ fartTimer' = f.timer
          /\ fartVisible' = f.visible
          /\ staleTicks' = IF gameState # gameStateRef THEN staleTicks + 1 ELSE 0
          /\ UNCHANGED <<gameStateRef, restarts, storageMode, gapCall>>
          /\ IF TickRuns
             THEN /\ sessionTicks < MaxTicks
                  /\ \E r \in IF SomeRecycle(pipes, StepMul(SCROLL_SPEED, Min(delta, MAX_DELTA)))
                              THEN Rnd ELSE {CHOOSE r0 \in Rnd : TRUE} :
                        PlayingTick(Min(delta, MAX_DELTA), r)
             ELSE /\ UNCHANGED <<gameState, plushpepe, pipes, globalScore,
                                 highScore, storedBest, sessionTicks, loopState>>
                  /\ last' = [Quiet("tick") EXCEPT !.delta = Min(delta, MAX_DELTA),
                                                  !.calls = CallNo("tick")]

\* a frame callback of the loop the effect started
TickWith(D) ==
    /\ loopState = "running"
    /\ LoopCall(D)

Tick == TickWith(Deltas)

---------------------------------------------------------------------------
(* flap() and resetGame() *)

ResetScore_Kept == globalScore

\* "globalScore = 0" at line 1052
ResetScore == 0

FlapNextState_Replay(ref, cur) ==
    IF ref = "ready" THEN "playing"
    ELSE IF ref = "gameover" THEN "playing"
    ELSE cur

\* the state flap() asks React for, by the state it reads in the ref
\* (lines 590, 591, 601 and 1054); none while playing
FlapNextState(ref, cur) ==
    IF ref = "ready" THEN "playing"
    ELSE IF ref = "gameover" THEN "ready"
    ELSE cur

resetGame ==
    /\ restarts < MaxRestarts
    /\ plushpepe' = StartBody
    /\ pipes' \in ResetPipeSets
    /\ fartVisible' = FALSE
    /\ fartTimer' = 0
    /\ globalScore' = ResetScore
    /\ gameState' = FlapNextState(gameStateRef, gameState)
    /\ sessionTicks' = 0
    /\ restarts' = restarts + 1
    /\ UNCHANGED <<highScore, storedBest>>

\* the input timing the model delivers while the tick handler is running
TapAllowed == sessionTicks % TapEvery = 0

FlapBody_Integrates(p) == [p EXCEPT !.vel = JUMP_VELOCITY, !.y = @ + JUMP_VELOCITY * 8]

FlapBody_Accumulate(p) == [p EXCEPT !.vel = @ + JUMP_VELOCITY]

\* "plushpepe.current.vel = JUMP_VELOCITY" at lines 592 and 597
FlapBody(p) == [p EXCEPT !.vel = JUMP_VELOCITY]

\* the branch of flap() taken when the ref reads 'ready'
FlapReady ==
    /\ gameStateRef = "ready"
    /\ gameState' = FlapNextState(gameStateRef, gameState)
    /\ plushpepe' = FlapBody(plushpepe)
    /\ fartTimer' = FART_DURATION
    /\ fartVisible' = TRUE
    /\ UNCHANGED <<pipes, globalScore, highScore, storedBest,
                   sessionTicks, restarts>>

\* the branch of flap() taken when the ref reads 'playing'
FlapPlaying ==
    /\ gameStateRef = "playing"
    /\ plushpepe' = FlapBody(plushpepe)
    /\ fartTimer' = FART_DURATION
    /\ fartVisible' = TRUE
    /\ gameState' = FlapNextState(gameStateRef, gameState)
    /\ UNCHANGED <<pipes, globalScore, highScore, storedBest,
                   sessionTicks, restarts>>

\* one call of flap(), recorded as rec
FlapCall(rec) ==
    /\ loopState # "unmounted"
    /\ UNCHANGED <<gameStateRef, staleTicks, storageMode, loopState, gapCall>>
    /\ last' = rec
    /\ \/ FlapReady
       \/ /\ TapAllowed
          /\ FlapPlaying
       \/ /\ gameStateRef = "gameover"
          /\ resetGame

Flap == FlapCall(Quiet("flap"))

---------------------------------------------------------------------------
(* Re-render: "gameStateRef.current = gameState" at line 485 *)

Render ==
    /\ gameState # gameStateRef
    /\ gameStateRef' = gameState
    /\ staleTicks' = 0
    /\ last' = Quiet("render")
    /\ UNCHANGED <<gameState, plushpepe, pipes, globalScore, highScore,
                   storedBest, fartTimer, fartVisible, sessionTicks, restarts,
                   storageMode, loopState, gapCall>>

Next == Tick \/ Flap \/ Render

Spec == Init /\ [][Next]_vars


---------------------------------------------------------------------------
(* The gap generator on its own: randomGapY applied to a previous-gap      *)
(* argument, and its result fed back as the next argument                  *)

GapArgs ==
    {NoGap} \cup {Px(n) : n \in 0..MaxGapArg} \cup {minGapY, maxGapY}
        \cup {Px(n) + 40 : n \in 130..507}

\* attempt 1 draws d1, every later attempt d2
TwoDraws(d1, d2) == [n \in 1..20 |-> IF n = 1 THEN d1 ELSE d2]

InitGap ==
    /\ gameState = "ready"
    /\ gameStateRef = "ready"
    /\ plushpepe = StartBody
    /\ pipes = CHOOSE ps \in InitialPipeSets : TRUE
    /\ globalScore = 0
    /\ storedBest = NoItem
    /\ highScore = LoadBest(storedBest)
    /\ fartTimer = 0
    /\ fartVisible = FALSE
    /\ sessionTicks = 0
    /\ staleTicks = 0
    /\ restarts = 0
    /\ storageMode = "ok"
    /\ loopState = "running"
    /\ last = Quiet("init")
    /\ \E a \in GapArgs : gapCall = [d |-> <<0, 0>>,
                                     prev |-> a,
                                     v |-> 0,
                                     out |-> NoGap]

CallGap ==
    /\ gapCall.out = NoGap
    /\ \E v \in GapTierDraws, d1 \in GapPosDraws, d2 \in GapPosDraws :
          gapCall' = [d |-> <<d1, d2>>,
                      prev |-> gapCall.prev,
                      v |-> v,
                      out |-> randomGapY(gapCall.prev, v, TwoDraws(d1, d2))]
    /\ UNCHANGED <<gameState, gameStateRef, plushpepe, pipes, globalScore,
                   highScore, storedBest, fartTimer, fartVisible, sessionTicks,
                   staleTicks, restarts, storageMode, loopState, last>>

ChainGap ==
    /\ gapCall.out # NoGap
    /\ gapCall' = [d |-> <<0, 0>>,
                   prev |-> gapCall.out,
                   v |-> 0,
                   out |-> NoGap]
    /\ UNCHANGED <<gameState, gameStateRef, plushpepe, pipes, globalScore,
                   highScore, storedBest, fartTimer, fartVisible, sessionTicks,
                   staleTicks, restarts, storageMode, loopState, last>>

NextGap == CallGap \/ ChainGap

SpecGap == InitGap /\ [][NextGap]_vars


---------------------------------------------------------------------------
(* The integration step on its own: a body in flight with any velocity that  *)
(* flap() and update() can leave, a few ticks of any of the frame deltas,    *)
(* and jumps in between                                                      *)

\* from the velocity a jump sets to the velocity the clamp allows
BodyVels == JUMP_VELOCITY..MAX_FALL_SPEED

InitBody ==
    /\ gameState = "playing"
    /\ gameStateRef = "playing"
    /\ \E v \in BodyVels :
          plushpepe = [y |-> StartY, vel |-> v, rot |-> Max(-300, Min(900, v * 7))]
    /\ pipes = CHOOSE ps \in InitialPipeSets : TRUE
    /\ globalScore = 0
    /\ storedBest = NoItem
    /\ highScore = LoadBest(storedBest)
    /\ fartTimer = 0
    /\ fartVisible = FALSE
    /\ sessionTicks = 0
    /\ staleTicks = 0
    /\ restarts = 0
    /\ storageMode = "ok"
    /\ loopState = "running"
    /\ last = Quiet("init")
    /\ gapCall = NoCall

TickBody ==
    /\ sessionTicks < MaxBodyTicks
    /\ TickWith(BodyDeltas)

FlapBetweenTicks ==
    /\ last.op = "tick"
    /\ loopState # "unmounted"
    /\ UNCHANGED <<gameStateRef, staleTicks, storageMode, loopState, gapCall>>
    /\ last' = Quiet("flap")
    /\ FlapPlaying

NextBody == TickBody \/ FlapBetweenTicks

SpecBody == InitBody /\ [][NextBody]_vars

---------------------------------------------------------------------------
(* One jump from the ready state, then frames of 16.67 ms (timeStep 1.0)    *)
(* and no further input.                                                    *)

DropDeltas == {MS_PER_FRAME}

\* the only input: the first jump
StartDrop ==
    /\ gameState = "ready"
    /\ loopState # "unmounted"
    /\ UNCHANGED <<gameStateRef, staleTicks, storageMode, loopState, gapCall>>
    /\ last' = Quiet("flap")
    /\ FlapReady

TickDrop == TickWith(DropDeltas)

NextDrop == StartDrop \/ TickDrop \/ Render

SpecDrop == Init /\ [][NextDrop]_vars

---------------------------------------------------------------------------
(* The game with a localStorage that may hold an unreadable entry, refuse   *)
(* writes, or refuse every access                                           *)

\* localStorage.getItem at line 355 runs inside the component function: when
\* it throws, the component never mounts, so no loop and no listener exists
InitStore ==
    /\ gameState = "ready"
    /\ gameStateRef = "ready"
    /\ plushpepe = StartBody
    /\ pipes \in InitialPipeSets
    /\ globalScore = 0
    /\ storedBest \in StoredAtStart
    /\ storageMode \in StorageModes
    /\ highScore = LoadBest(storedBest)
    /\ loopState = IF storageMode = "blocked" THEN "unmounted" ELSE "running"
    /\ fartTimer = 0
    /\ fartVisible = FALSE
    /\ sessionTicks = 0
    /\ staleTicks = 0
    /\ restarts = 0
    /\ last = Quiet("init")
    /\ gapCall = NoCall

SpecStore == InitStore /\ [][Next]_vars

---------------------------------------------------------------------------
(* update(step) handed a step that is NaN.  loop() never computes one (its  *)
(* delta is Math.min of a difference of two timestamps and 32); the step is *)
(* supplied here as an input of update() to see what update() does with it. *)
(* In JavaScript every sum or product with NaN is NaN and every comparison  *)
(* with NaN is false.                                                       *)

NaNBody == [y |-> NotANumber, vel |-> NotANumber, rot |-> NotANumber]

\* update(NaN) while playing: lines 621-627 leave the timer at NaN and visible
\* (NaN <= 0 is false); lines 635-640 make vel, y and rot NaN (NaN >
\* MAX_FALL_SPEED is false); the tests at lines 646 and 652 are false; line 703
\* makes every pipe.x NaN, the score and recycle tests at lines 706 and 713 are
\* false, and so are the overlap tests at lines 740-753
TickMalformed ==
    /\ loopState = "running"
    /\ gameStateRef = "playing"
    /\ gameState = gameStateRef
    /\ plushpepe.y # NotANumber
    /\ sessionTicks < MaxTicks
    /\ fartTimer' = IF fartVisible THEN NotANumber ELSE fartTimer
    /\ plushpepe' = NaNBody
    /\ pipes' = [i \in 1..Len(pipes) |-> [pipes[i] EXCEPT !.x = NotANumber]]
    /\ sessionTicks' = sessionTicks + 1
    /\ staleTicks' = 0
    /\ last' = [delta |-> NotANumber,
                threw |-> FALSE,
                over |-> FALSE,
                saved |-> FALSE,
                recycled |-> {},
                op |-> "tick",
                ran |-> TRUE,
                tested |-> pipes',
                calls |-> 1]
    /\ UNCHANGED <<gameState, gameStateRef, globalScore, highScore, storedBest,
                   fartVisible, restarts, storageMode, loopState, gapCall>>

\* any later update(step), finite or not, on the body and pipes that
\* update(NaN) left: the same lines leave every NaN a NaN and every test false;
\* a timer that is not NaN (the effect was hidden) is not touched either
TickOnNaN ==
    /\ loopState = "running"
    /\ gameStateRef = "playing"
    /\ plushpepe.y = NotANumber
    /\ sessionTicks < MaxTicks
    /\ sessionTicks' = sessionTicks + 1
    /\ staleTicks' = 0
    /\ last' = [delta |-> NotANumber,
                threw |-> FALSE,
                over |-> FALSE,
                saved |-> FALSE,
                recycled |-> {},
                op |-> "tick",
                ran |-> TRUE,
                tested |-> pipes,
                calls |-> 1]
    /\ UNCHANGED <<gameState, gameStateRef, plushpepe, pipes, globalScore,
                   highScore, storedBest, fartTimer, fartVisible, restarts,
                   storageMode, loopState, gapCall>>

\* a tick with a finite step on a finite body
TickFinite ==
    /\ plushpepe.y # NotANumber
    /\ Tick

NextMalformed == StartDrop \/ TickFinite \/ TickMalformed \/ TickOnNaN \/ Render

SpecMalformed == Init /\ [][NextMalformed]_vars

---------------------------------------------------------------------------
(* A player who jumps from the ready state, taps again before every frame   *)
(* for as long as they like, and then lets go: the body climbs to the       *)
(* ceiling, or falls from where the taps stopped onto a pipe or the ground  *)

\* a tap right after a tick that itself came right after a tap: only such a
\* tick leaves the velocity one gravity step above JUMP_VELOCITY
TapAgain ==
    /\ last.op = "tick" /\ last.ran
    /\ \E delta \in Deltas :
          plushpepe.vel = JUMP_VELOCITY + StepMul(GRAVITY, delta)
    /\ loopState # "unmounted"
    /\ UNCHANGED <<gameStateRef, staleTicks, storageMode, loopState, gapCall>>
    /\ last' = Quiet("flap")
    /\ FlapPlaying

NextTaps == StartDrop \/ TapAgain \/ Tick \/ Render

SpecTaps == Init /\ [][NextTaps]_vars

---------------------------------------------------------------------------
(* The overlap test on its own: the second forEach of update() applied to a *)
(* body at any height and one pipe at any place around the body             *)

\* heights of the body (px, and half a pixel below each), from above the
\* ceiling to below the ground line
HitRows == -80..780
BodyHeights == {Px(n) + h : n \in HitRows, h \in {0, 40}}
\* pipe positions (1/80 px) about the two edges of the hitbox, and one across it
PipeXs == {Px(n) + e : n \in {82, 230}, e \in {-80, -1, 0, 1, 80}} \cup {Px(150)}
\* gap positions: the two safe bounds and one in between
PipeGaps == {minGapY, Px(300), maxGapY}

InitHit ==
    /\ gameState = "playing"
    /\ gameStateRef = "playing"
    /\ \E y \in BodyHeights : plushpepe = [y |-> y, vel |-> 0, rot |-> 0]
    /\ \E x \in PipeXs, gap \in PipeGaps :
          pipes = <<[x |-> x, gapY |-> gap, scored |-> FALSE]>>
    /\ globalScore = 0
    /\ storedBest = NoItem
    /\ highScore = LoadBest(storedBest)
    /\ fartTimer = 0
    /\ fartVisible = FALSE
    /\ sessionTicks = 0
    /\ staleTicks = 0
    /\ restarts = 0
    /\ storageMode = "ok"
    /\ loopState = "running"
    /\ last = Quiet("init")
    /\ gapCall = NoCall

\* lines 726-758 on the body and the pipe as they are
CollisionPass ==
    /\ last.op = "init"
    /\ LET g0 == [gameState |-> gameState,
                  highScore |-> highScore,
                  storedBest |-> storedBest,
                  threw |-> FALSE,
                  over |-> FALSE,
                  saved |-> FALSE]
           g1 == CollisionLoop(g0, pipes, 1, plushpepe.y, globalScore)
       IN /\ gameState' = g1.gameState
          /\ highScore' = g1.highScore
          /\ storedBest' = g1.storedBest
          /\ last' = [delta |-> 0,
                      threw |-> g1.threw,
                      over |-> g1.over,
                      saved |-> g1.saved,
                      recycled |-> {},
                      op |-> "collide",
                      ran |-> TRUE,
                      tested |-> pipes,
                      calls |-> 1]
    /\ UNCHANGED <<gameStateRef, plushpepe, pipes, globalScore, fartTimer,
                   fartVisible, sessionTicks, staleTicks, restarts, storageMode,
                   loopState, gapCall>>

NextHit == CollisionPass

SpecHit == InitHit /\ [][NextHit]_vars

---------------------------------------------------------------------------
(* The frame clock: callbacks that arrive at once, on time, late and after  *)
(* a long stall.  requestAnimationFrame timestamps never decrease.  A delta *)
(* capped at 32 ms is not a whole number of the model's units: StepMul      *)
(* rounds its products down, by less than one unit.                         *)

MaxClockTicks == 3
\* now - lastTime (1/1000 ms): 0, one frame, the cap itself, two frames, and
\* ten minutes (a stall, or the timestamp of a first callback)
ClockDeltas == {0, 16670, 32000, 33340, 600000000}

TickClock ==
    /\ sessionTicks < MaxClockTicks
    /\ TickWith(ClockDeltas)

NextClock == TickClock

\* from a body in flight with any velocity
SpecClock == InitBody /\ [][NextClock]_vars

---------------------------------------------------------------------------
(* The first forEach of update() on its own, tick after tick, in the        *)
(* arithmetic of the source: pipe.x is an IEEE-754 double, and every        *)
(* "pipe.x -= ..." and "pipe.x += ..." rounds its result to 53 significant  *)
(* bits, to nearest, ties to even.                                          *)
(* A position here is [w, fh, fl]: w whole px (the floor), and a fraction   *)
(* of fh * 2^25 + fl units of 2^-50 px.  Every position and the scroll step *)
(* are whole numbers of that unit: the step lies in [4, 8), where a double  *)
(* is a multiple of 2^-50, and a sum of such multiples below 8 in magnitude *)
(* is a double as it stands.                                                *)

MaxScrollTicks == 400
Limb == 33554432            \* 2^25

\* SCROLL_SPEED * step for step = 16.67 / 16.67 = 1: the double nearest 4.025,
\* which is 4 + 28147497671066 / 2^50
ScrollStep64 == [w |-> 4, fh |-> 838860, fl |-> 26843546]

\* carries of the two fraction limbs
Norm64(w, fh, fl) ==
    LET h1 == fh + fl \div Limb
    IN [w |-> w + h1 \div Limb, fh |-> h1 % Limb, fl |-> fl % Limb]

\* units of 2^-50 between neighbouring doubles whose magnitude has whole
\* part m: 1 below 8, doubling with every power of two
RECURSIVE Ulp64(_)
Ulp64(m) == IF m < 8 THEN 1 ELSE 2 * Ulp64(m \div 2)

\* the double nearest an exact value
Round64(x) ==
    LET m == IF x.w >= 0 THEN x.w ELSE -x.w - 1
        u == Ulp64(m)
        q == x.fl \div u
        rem == x.fl % u
        up == 2 * rem > u \/ (2 * rem = u /\ q % 2 = 1)
    IN Norm64(x.w, x.fh, (IF up THEN q + 1 ELSE q) * u)

\* pipe.x -= d and pipe.x += n for a whole number n
Sub64(x, d) == Round64(Norm64(x.w - d.w, x.fh - d.fh, x.fl - d.fl))
AddWhole64(x, n) == Round64([x EXCEPT !.w = @ + n])

Less64(a, b) ==
    \/ a.w < b.w
    \/ a.w = b.w /\ a.fh < b.fh
    \/ a.w = b.w /\ a.fh = b.fh /\ a.fl < b.fl

\* the reduce at lines 717-718
RECURSIVE RightmostFrom64(_, _, _)
RightmostFrom64(ps, i, rightmost) ==
    IF i > Len(ps) THEN rightmost
    ELSE RightmostFrom64(ps, i + 1, IF Less64(rightmost.x, ps[i].x) THEN ps[i] ELSE rightmost)

PipeStep64_TwoIntervals(acc, i, r) ==
    LET moved == [acc.pipes[i] EXCEPT !.x = Sub64(@, ScrollStep64)]
        hit == ~moved.scored /\ moved.x.w < PLUSHPEPE_X - PLUSHPEPE_HITBOX \div 2
        marked == IF hit THEN [moved EXCEPT !.scored = TRUE] ELSE moved
        score1 == IF hit THEN acc.score + 1 ELSE acc.score
        ps1 == [acc.pipes EXCEPT ![i] = marked]
    IN IF marked.x.w < -PIPE_WIDTH
       THEN LET ahead == [marked EXCEPT !.x = AddWhole64(@, PIPE_INTERVAL * 2)]
                ps2 == [ps1 EXCEPT ![i] = ahead]
                fresh == [ahead EXCEPT !.gapY = gapOf(RightmostFrom64(ps2, 1, ps2[1]).gapY, r),
                                       !.scored = FALSE]
            IN [pipes |-> [ps2 EXCEPT ![i] = fresh], score |-> score1,
                recycled |-> acc.recycled \cup {i}]
       ELSE [pipes |-> ps1, score |-> score1, recycled |-> acc.recycled]

\* one iteration of the forEach at lines 701-723; x < 136 and x + 104 < 0 are
\* tests of the whole part, the fraction being 0 or more
PipeStep64(acc, i, r) ==
    LET moved == [acc.pipes[i] EXCEPT !.x = Sub64(@, ScrollStep64)]
        hit == ~moved.scored /\ moved.x.w < PLUSHPEPE_X - PLUSHPEPE_HITBOX \div 2
        marked == IF hit THEN [moved EXCEPT !.scored = TRUE] ELSE moved
        score1 == IF hit THEN acc.score + 1 ELSE acc.score
        ps1 == [acc.pipes EXCEPT ![i] = marked]
    IN IF marked.x.w < -PIPE_WIDTH
       THEN LET ahead == [marked EXCEPT !.x = AddWhole64(@, PIPE_INTERVAL * Len(acc.pipes))]
                ps2 == [ps1 EXCEPT ![i] = ahead]
                fresh == [ahead EXCEPT !.gapY = gapOf(RightmostFrom64(ps2, 1, ps2[1]).gapY, r),
                                       !.scored = FALSE]
            IN [pipes |-> [ps2 EXCEPT ![i] = fresh], score |-> score1,
                recycled |-> acc.recycled \cup {i}]
       ELSE [pipes |-> ps1, score |-> score1, recycled |-> acc.recycled]

RECURSIVE PipeLoop64(_, _, _)
PipeLoop64(acc, i, r) ==
    IF i > Len(acc.pipes) THEN acc
    ELSE PipeLoop64(PipeStep64(acc, i, r), i + 1, r)

\* the pipes of lines 519-524, their positions (whole numbers) as doubles
InitScroll ==
    /\ gameState = "playing"
    /\ gameStateRef = "playing"
    /\ plushpepe = StartBody
    /\ LET ps == CHOOSE p \in InitialPipeSets : TRUE
       IN pipes = [i \in 1..Len(ps) |->
                      [x |-> [w |-> ps[i].x \div 80, fh |-> 0, fl |-> 0],
                       gapY |-> ps[i].gapY, scored |-> FALSE]]
    /\ globalScore = 0
    /\ storedBest = NoItem
    /\ highScore = LoadBest(storedBest)
    /\ fartTimer = 0
    /\ fartVisible = FALSE
    /\ sessionTicks = 0
    /\ staleTicks = 0
    /\ restarts = 0
    /\ storageMode = "ok"
    /\ loopState = "running"
    /\ last = Quiet("init")
    /\ gapCall = NoCall

TickScroll ==
    /\ sessionTicks < MaxScrollTicks
    /\ \E r \in IF \E i \in 1..Len(pipes) :
                      Sub64(pipes[i].x, ScrollStep64).w < -PIPE_WIDTH
                THEN Rnd ELSE {CHOOSE r0 \in Rnd : TRUE} :
          LET acc == PipeLoop64([pipes |-> pipes, score |-> globalScore,
                                 recycled |-> {}], 1, r)
          IN /\ pipes' = acc.pipes
             /\ globalScore' = acc.score
             /\ last' = [Quiet("tick") EXCEPT !.ran = TRUE,
                                             !.recycled = acc.recycled,
                                             !.delta = MS_PER_FRAME]
    /\ sessionTicks' = sessionTicks + 1
    /\ UNCHANGED <<gameState, gameStateRef, plushpepe, highScore, storedBest,
                   fartTimer, fartVisible, staleTicks, restarts, storageMode,
                   loopState, gapCall>>

NextScroll == TickScroll

SpecScroll == InitScroll /\ [][NextScroll]_vars

---------------------------------------------------------------------------
(* The effect run a second time on the mounted component, as React does     *)
(* right after the first run under its strict mode: the cleanup of lines    *)
(* 612-615 runs, then the effect body again.  The cleanup removes the       *)
(* resize and pointerdown listeners; it does not cancel the frame callback  *)
(* that line 584 keeps re-arming, and the keydown listener of line 608 is   *)
(* an anonymous function that is never removed.  The second run starts a    *)
(* second loop and adds a second keydown listener, on the same refs.        *)

\* a handler has run for the current frame or key press and the second
\* handler registered for it has not run yet
SecondDue ==
    loopState = "remounted" /\ last.calls = 1 /\ last.op \in {"tick", "key"}

InitMount ==
    /\ Init
    /\ pipes = CHOOSE ps \in InitialPipeSets : TRUE

\* cleanup, then the effect body, before any frame or input
Remount ==
    /\ loopState = "running"
    /\ last.op = "init"
    /\ loopState' = "remounted"
    /\ last' = Quiet("remount")
    /\ UNCHANGED <<gameState, gameStateRef, plushpepe, pipes, globalScore,
                   highScore, storedBest, fartTimer, fartVisible, sessionTicks,
                   staleTicks, restarts, storageMode, gapCall>>

\* a frame callback: of the one loop, or of either of the two loops, which
\* are called one after the other for every display frame
TickMount ==
    /\ loopState \in {"running", "remounted"}
    /\ SecondDue => last.op = "tick"
    /\ LoopCall(Deltas)

\* a pointerdown event: one listener is registered, before and after
PointerDown ==
    /\ ~SecondDue
    /\ Flap

\* a keydown event of ' ' or ArrowUp: every registered listener calls flap()
KeyDown ==
    /\ SecondDue => last.op = "key"
    /\ FlapCall([Quiet("key") EXCEPT !.calls = CallNo("key")])

RenderMount ==
    /\ ~SecondDue
    /\ Render

NextMount == Remount \/ TickMount \/ PointerDown \/ KeyDown \/ RenderMount

SpecMount == InitMount /\ [][NextMount]_vars

---------------------------------------------------------------------------
(* Properties *)

Edges == {<<"ready", "playing">>, <<"playing", "gameover">>, <<"gameover", "ready">>}

\* C1: the game state (the React state and the ref the handlers read) changes
\* only along ready -> playing on a jump input, playing -> gameover on a tick
\* that called handleGameOver, and gameover -> ready on a jump input.
C1_StateMachine ==
    [][/\ gameState' # gameState =>
             \/ gameState = "ready" /\ gameState' = "playing" /\ last'.op = "flap"
             \/ gameState = "playing" /\ gameState' = "gameover"
                   /\ last'.op = "tick" /\ last'.over
             \/ gameState = "gameover" /\ gameState' = "ready" /\ last'.op = "flap"
       /\ gameStateRef' # gameStateRef => <<gameStateRef, gameStateRef'>> \in Edges
      ]_vars

\* C1 witness: a full cycle ready -> playing -> gameover -> ready has run
C1_Witness ==
    gameState = "ready" /\ gameStateRef = "ready" /\ restarts = 1 /\ last.op = "render"

\* C2: a tick executed while the state read by update() is ready or gameover
\* leaves the body, every pipe and the score unchanged; the physics part of a
\* tick runs only when that state is playing.
C2_FrozenUnlessPlaying ==
    [][last'.op = "tick" =>
          /\ gameStateRef # "playing" => UNCHANGED <<plushpepe, pipes, globalScore>>
          /\ last'.ran => gameStateRef = "playing"
      ]_vars

\* C2 witness: a tick has just run in the gameover state, on a body that has moved
C2_Witness ==
    /\ last.op = "tick" /\ ~last.ran
    /\ gameStateRef = "gameover"
    /\ plushpepe.y # StartY

\* the pipe the body meets immediately before pipe i: the rightmost other pipe
PreviousInScroll(ps, i) ==
    CHOOSE j \in (1..Len(ps)) \ {i} :
        \A k \in (1..Len(ps)) \ {i} : ps[k].x <= ps[j].x

\* C3: a recycled pipe's new gap is anchored on the gap of the previous pipe in
\* scroll order, so it lies within [previous - 95, previous + 100].
C3_RecycleAnchoredOnPrevious ==
    \A i \in last.recycled :
        LET anchor == pipes[PreviousInScroll(pipes, i)].gapY
        IN /\ pipes[i].gapY >= anchor - Px(95)
           /\ pipes[i].gapY <= anchor + Px(100)

\* C4: for every previous-gap argument (none, inside the safe range, the
\* extremes, outside the safe range) and every draw, randomGapY returns g with
\* 130 <= g <= 507.5.
C4_GapInSafeRange ==
    gapCall.out # NoGap =>
        /\ minGapY = Px(130)
        /\ 2 * maxGapY = Px(1015)
        /\ gapCall.out >= Px(130)
        /\ 2 * gapCall.out <= Px(1015)

\* C4 witness: a call whose argument lies outside the safe range returned a bound
C4_Witness ==
    /\ gapCall.out = minGapY
    /\ gapCall.prev # NoGap
    /\ gapCall.prev < minGapY - Px(100)

\* C5: for every previous gap in [130, 507.5], every tier and every draw,
\* |randomGapY(g) - g| >= 40.
C5_MinimumDelta ==
    (gapCall.out # NoGap /\ gapCall.prev >= Px(130) /\ 2 * gapCall.prev <= Px(1015))
        => Abs(gapCall.out - gapCall.prev) >= Px(40)

\* C5 witness: in the small tier all 20 attempts failed and the delta was forced
C5_Witness ==
    /\ gapCall.out # NoGap
    /\ gapCall.v = 0
    /\ gapCall.prev = maxGapY
    /\ gapCall.out = maxGapY - Px(40)

\* C6: every pipe's gap leaves a shaft of at least 80 px above and below:
\* gapY >= 80 and 800 - (gapY + 162.5) >= 80.
C6_ShaftHeights ==
    \A i \in 1..Len(pipes) :
        /\ pipes[i].gapY >= Px(80)
        /\ 2 * (Px(800) - pipes[i].gapY) - Px(325) >= 2 * Px(80)

\* C6 witness: a pipe has been recycled in a session that followed a restart
C6_Witness == restarts = 1 /\ last.recycled # {}

\* C7: the score grows by exactly the number of pipes whose scored flag goes
\* from false to true in that step (and only in a tick), a flag is cleared only
\* by a recycle of that pipe or a restart, and a recycled pipe is left unscored.
C7_ScoredOncePerPass ==
    [][/\ restarts' = restarts =>
             globalScore' = globalScore
                 + Cardinality({i \in 1..Len(pipes) :
                                   ~pipes[i].scored /\ pipes'[i].scored})
       /\ globalScore' # globalScore /\ restarts' = restarts => last'.op = "tick"
       /\ \A i \in 1..Len(pipes) :
             (pipes[i].scored /\ ~pipes'[i].scored) =>
                 \/ restarts' # restarts
                 \/ last'.op = "tick" /\ i \in last'.recycled
       /\ last'.op = "tick" => \A i \in last'.recycled : ~pipes'[i].scored
       /\ Len(pipes') = Len(pipes)
      ]_vars

\* C7 witness: the first pipe was scored, recycled and scored a second time
C7_Witness == globalScore = 4 /\ pipes[1].scored /\ restarts = 0

\* C8: within a session the score never decreases, and a restart sets it to 0.
C8_ScoreMonotone ==
    [][/\ restarts' = restarts => globalScore' >= globalScore
       /\ restarts' # restarts => globalScore' = 0
      ]_vars

\* C8 witness: a restart has just reset a session that had scored
C8_Witness ==
    /\ restarts = 1 /\ last.op = "flap" /\ globalScore = 0
    /\ highScore = 3 /\ sessionTicks = 0

Persisted(stored) == IF stored = NoItem THEN 0 ELSE stored

\* C9: neither the in-memory best score nor the persisted 'best' entry ever
\* decreases, and a restart leaves both unchanged.
C9_BestMonotone ==
    [][/\ highScore' >= highScore
       /\ Persisted(storedBest') >= Persisted(storedBest)
       /\ restarts' # restarts => UNCHANGED <<highScore, storedBest>>
      ]_vars

\* C9 witness: a best score saved in the first session is still there in the second
C9_Witness ==
    /\ restarts = 1 /\ gameStateRef = "playing"
    /\ highScore = 2 /\ storedBest = 2

\* C10: 'best' is written only by a tick that called handleGameOver, only when
\* the score is strictly greater than the best score, and then with the score;
\* after the terminal transition the best score is max(previous best, score).
C10_SaveOnlyIfGreater ==
    [][/\ storedBest' # storedBest =>
             /\ last'.op = "tick" /\ last'.over /\ last'.saved
             /\ globalScore' > highScore
             /\ storedBest' = globalScore'
       /\ last'.op = "tick" /\ last'.over =>
             /\ highScore' = Max(highScore, globalScore')
             /\ globalScore' <= highScore => storedBest' = storedBest /\ ~last'.saved
       /\ last'.op = "tick" /\ last'.saved => storedBest' = globalScore'
      ]_vars

\* C10 witness: a terminal transition has just saved a new best score
C10_Witness ==
    /\ last.over /\ last.saved
    /\ globalScore >= 1 /\ storedBest = globalScore /\ highScore = globalScore

\* C11 as stated: whatever state the jump arrives in, it leaves the body's
\* velocity at exactly JUMP_VELOCITY.
C11_JumpAlwaysSetsVelocity ==
    [][last'.op = "flap" => plushpepe'.vel = JUMP_VELOCITY]_vars

\* C11, amended: a jump that flap() reads as ready or playing leaves the
\* velocity at exactly JUMP_VELOCITY whatever it was before and whatever state
\* change it asks for; a jump read as gameover is a reset and leaves it at 0.
C11_JumpSetsVelocityUnlessReset ==
    [][last'.op = "flap" =>
          /\ gameStateRef \in {"ready", "playing"} => plushpepe'.vel = JUMP_VELOCITY
          /\ gameStateRef = "gameover" => plushpepe'.vel = 0
      ]_vars

\* C11 witness: a jump has just arrived in mid-flight, after 21 ticks of fall
C11_Witness ==
    /\ last.op = "flap" /\ gameStateRef = "playing"
    /\ sessionTicks = TapEvery
    /\ plushpepe.vel = JUMP_VELOCITY


\* C12: for each of the frame deltas (each a step > 0), a tick of the playing
\* state with no jump strictly increases the velocity while it is below
\* MAX_FALL_SPEED, never leaves it above MAX_FALL_SPEED, and leaves it at
\* MAX_FALL_SPEED once it is there; only a jump lowers it.
C12_VelocityRisesToCap ==
    [][/\ (last'.op = "tick" /\ last'.ran) =>
             /\ plushpepe.vel < MAX_FALL_SPEED => plushpepe'.vel > plushpepe.vel
             /\ plushpepe'.vel <= MAX_FALL_SPEED
             /\ plushpepe.vel = MAX_FALL_SPEED => plushpepe'.vel = MAX_FALL_SPEED
       /\ plushpepe'.vel < plushpepe.vel => last'.op = "flap"
      ]_vars

\* C12 witness: the velocity was clamped to MAX_FALL_SPEED by a tick and was
\* still there after the next one
C12_Witness ==
    /\ last.op = "tick" /\ last.ran
    /\ sessionTicks = 2
    /\ plushpepe.vel = MAX_FALL_SPEED
    /\ plushpepe.y - StartY > 2 * StepMul(MAX_FALL_SPEED * 8, 8335)
    /\ plushpepe.y - StartY < 2 * StepMul(MAX_FALL_SPEED * 8, 25005)


\* C13: from ready with the body at y = 412 and velocity 0, the first jump asks
\* for the playing state and leaves the velocity at JUMP_VELOCITY; with ticks of
\* timeStep 1.0 and no further input the game is never still playing after 64
\* physics ticks: the 64th takes the body across the ground line
\* (y + 48 >= 800) and ends the game, and nothing ends it earlier; 'best' is
\* written only when the score is greater than the best score.
C13_FirstJumpThenGround ==
    [][/\ (last'.op = "flap" /\ gameStateRef = "ready") =>
             /\ plushpepe.y = Px(412) /\ plushpepe.vel = 0
             /\ gameState' = "playing"
             /\ plushpepe' = [plushpepe EXCEPT !.vel = JUMP_VELOCITY]
       /\ gameState' = "playing" => sessionTicks' < 64
       /\ (gameState = "playing" /\ gameState' = "gameover") =>
             /\ last'.op = "tick" /\ last'.over
             /\ plushpepe.y + Px(48) < Px(800)
             /\ plushpepe'.y + Px(48) >= Px(800)
             /\ sessionTicks' = 64
       /\ (last'.saved \/ storedBest' # storedBest) => globalScore' > highScore
      ]_vars

\* C13 witness: the fall has just ended the game on the ground line and the
\* re-render has made the handlers see it
C13_Witness ==
    /\ gameState = "gameover" /\ gameStateRef = "gameover"
    /\ plushpepe.y + Px(48) >= Px(800)
    /\ plushpepe.vel = MAX_FALL_SPEED
    /\ globalScore = 0 /\ highScore = LoadBest(storedBest)


\* the gaps a pipe can hold: whole pixels of the safe range, and its upper end
StoredGaps == {Px(n) : n \in 130..507} \cup {maxGapY}

\* what randomGapY can return for the anchor prev, over the draws of the model
GapOutcomes == [prev \in StoredGaps |-> {gapOf(prev, r) : r \in Rnd}]

\* C14: a jump read in the gameover state leaves the body at exactly y = 412,
\* velocity 0, rotation 0, the score at 0, the effect timer at 0 and hidden,
\* three unscored pipes at x = 626, 976, 1326 whose first gap is an unanchored
\* outcome of randomGapY and whose second and third gaps are outcomes of
\* randomGapY anchored on the gap stored in the pipe before, and the state
\* asked for is ready; the best score and the 'best' entry are unchanged.
C14_RestartResetsAll ==
    [][(last'.op = "flap" /\ gameStateRef = "gameover") =>
          /\ plushpepe' = [y |-> Px(412), vel |-> 0, rot |-> 0]
          /\ globalScore' = 0
          /\ fartTimer' = 0 /\ ~fartVisible'
          /\ Len(pipes') = 3
          /\ \A i \in 1..3 : /\ pipes'[i].x = Px(626 + 350 * (i - 1))
                             /\ ~pipes'[i].scored
          /\ pipes'[1].gapY \in {randomGapY(NoGap, 0, d) : d \in DrawSeqs}
          /\ pipes'[2].gapY \in GapOutcomes[pipes'[1].gapY]
          /\ pipes'[3].gapY \in GapOutcomes[pipes'[2].gapY]
          /\ gameState' = "ready"
          /\ UNCHANGED <<highScore, storedBest>>
      ]_vars

\* C14 witness: a restart has just replaced a session that had moved the body,
\* scored and saved, and the new second gap is far below the first
C14_Witness ==
    /\ last.op = "flap" /\ restarts = 1
    /\ gameState = "ready" /\ gameStateRef = "gameover"
    /\ highScore = 2 /\ storedBest = 2
    /\ plushpepe = StartBody
    /\ pipes[2].gapY > pipes[1].gapY + Px(60)


\* the terminal tests of update() on the body and pipes a tick has produced
TerminalTest(y, ps) ==
    BoundaryHit(y) \/ \E i \in 1..Len(ps) : PipeCollision(y, ps[i])

\* C15: when localStorage refuses writes, a tick of the playing state whose
\* terminal test succeeds still asks for the gameover state, lets no exception
\* out of the tick handler and leaves the loop running.
C15_FailedSaveIsNoOp ==
    [][(/\ storageMode # "ok"
        /\ last'.op = "tick" /\ last'.ran
        /\ TerminalTest(plushpepe'.y, pipes')) =>
          /\ gameState' = "gameover"
          /\ ~last'.threw
          /\ loopState' = "running"
      ]_vars


\* C16: after construction the best score is 0 (and the game is mounted)
\* whenever the 'best' entry is absent, does not read as a number, or cannot be
\* read at all; and where writes work, the first session that ends with a
\* score above 0 then saves that score as the best score.
C16_UnreadableBestIsZero ==
    /\ [](last.op = "init" /\ ( \/ storedBest \in {NoItem, Garbage}
                                \/ storageMode = "blocked" )
             => highScore = 0 /\ loopState = "running")
    /\ [][(/\ storageMode = "ok"
           /\ storedBest \in {NoItem, Garbage}
           /\ last'.op = "tick" /\ last'.over
           /\ globalScore' > 0) =>
             /\ highScore' = globalScore'
             /\ storedBest' = globalScore'
         ]_vars


\* C17: a tick of the playing state that leaves the body's position or velocity
\* NaN asks for the gameover state in that same tick.
C17_NonFiniteEndsGame ==
    [][(/\ last'.op = "tick" /\ last'.ran
        /\ (plushpepe'.y = NotANumber \/ plushpepe'.vel = NotANumber)) =>
          gameState' = "gameover"
      ]_vars


\* C18 as stated: for every previous gap p in [130, 507.5] and every draw,
\* max(130, p - 95) <= randomGapY(p) <= min(507.5, p + 100).
C18_InsideReachabilityWindow ==
    (gapCall.out # NoGap /\ gapCall.prev >= Px(130) /\ 2 * gapCall.prev <= Px(1015))
        => /\ gapCall.out >= Max(Px(130), gapCall.prev - Px(95))
           /\ gapCall.out <= Min(maxGapY, gapCall.prev + Px(100))

\* C18, amended: for every previous gap p in [130, 507.5] and every draw,
\* floor(max(130, p - 95)) <= randomGapY(p) <= min(507.5, p + 100), where 95
\* and 100 are the caps the code puts on the simulated climb and fall ranges
\* (both of which are larger).
C18_InsideFlooredWindow ==
    /\ MAX_UPWARD_DELTA = Px(95) /\ calculatePepeManeuverability.climb > Px(95)
    /\ MAX_DOWNWARD_DELTA = Px(100) /\ calculatePepeManeuverability.fall > Px(100)
    /\ (gapCall.out # NoGap /\ gapCall.prev >= Px(130) /\ 2 * gapCall.prev <= Px(1015))
          => /\ gapCall.out >= FloorPx(Max(Px(130), gapCall.prev - Px(95)))
             /\ gapCall.out <= Min(maxGapY, gapCall.prev + Px(100))

\* C18 witness: the large tier returned the very top of the window, 95 px above
\* a whole-pixel previous gap
C18_Witness ==
    /\ gapCall.prev = Px(300)
    /\ gapCall.v = 5
    /\ gapCall.out = Px(300) - Px(95)


\* C19: the pipes the component is constructed with form a chain: the first gap
\* is an unanchored outcome of randomGapY, and each following gap is an outcome
\* of randomGapY anchored on the gap stored in the pipe before it, so that
\* earlier - 95 <= later <= earlier + 100 for both adjacent pairs.
C19_InitialGapsChained ==
    last.op = "init" =>
        /\ Len(pipes) = 3
        /\ pipes[1].gapY \in {randomGapY(NoGap, 0, d) : d \in DrawSeqs}
        /\ \A i \in 1..2 :
              /\ pipes[i + 1].gapY \in GapOutcomes[pipes[i].gapY]
              /\ pipes[i + 1].gapY >= pipes[i].gapY - Px(95)
              /\ pipes[i + 1].gapY <= pipes[i].gapY + Px(100)


\* C20: a tick of the playing state calls handleGameOver, and asks for the
\* gameover state, exactly when the body it has just integrated fails a
\* boundary test (y + 48 >= 800 or y < 0) or overlaps a pipe; so whenever such
\* a tick leaves the state playing, 0 <= y and y + 48 < 800.
C20_TerminalIffCollision ==
    [][(last'.op = "tick" /\ last'.ran) =>
          /\ last'.over <=>
                \/ plushpepe'.y + Px(48) >= Px(800)
                \/ plushpepe'.y < 0
                \/ \E i \in 1..Len(pipes') : PipeCollision(plushpepe'.y, pipes'[i])
          /\ last'.over => gameState' = "gameover"
          /\ gameState' = "playing" =>
                /\ ~last'.over
                /\ plushpepe'.y >= 0
                /\ plushpepe'.y + Px(48) < Px(800)
      ]_vars

\* C20 witness: a tick has just ended the game at the ceiling
C20_Witness ==
    /\ last.op = "tick" /\ last.over
    /\ gameState = "gameover"
    /\ plushpepe.y < 0


\* C21: the overlap test ends the game exactly when the hitbox
\* [184, 232] x [y + 24, y + 72] strictly overlaps, on both axes, the top bounds
\* [x + 2, x + 102] x [0, gapY - 2] or the bottom bounds
\* [x + 2, x + 102] x [gapY + 164.5, 800]; a hitbox inside the gap never does.
C21_OverlapTest ==
    last.op = "collide" =>
        LET y == plushpepe.y
            x == pipes[1].x
            gapY == pipes[1].gapY
            acrossX == Px(232) > x + Px(2) /\ Px(184) < x + Px(102)
            onTop == acrossX /\ y + Px(72) > 0 /\ y + Px(24) < gapY - Px(2)
            onBottom == acrossX /\ y + Px(72) > gapY + 13160 /\ y + Px(24) < Px(800)
            insideGap == y + Px(24) >= gapY - Px(2) /\ y + Px(72) <= gapY + 13160
        IN /\ last.over <=> (onTop \/ onBottom)
           /\ last.over <=> gameState = "gameover"
           /\ insideGap => ~last.over

\* C21 witness: the game ended on a hitbox that reaches 1 px into the top
\* bounds vertically and 1 px into them horizontally
C21_Witness ==
    /\ last.op = "collide" /\ last.over
    /\ plushpepe.y + Px(24) = pipes[1].gapY - Px(2) - Px(1)
    /\ Px(232) = pipes[1].x + Px(2) + Px(1)


\* what the first forEach makes of pipe i's position when nothing is recycled
ScrolledX(i, dx) == pipes[i].x - dx

\* C22 as stated: a playing tick integrates the body, tests the boundaries and
\* the pipes on that body, and goes over pipe positions that this tick has
\* scrolled but not recycled.
C22_CollisionBeforeRecycle ==
    [][(last'.op = "tick" /\ last'.ran) =>
          \E delta \in Deltas :
             LET dx == StepMul(SCROLL_SPEED, Min(delta, MAX_DELTA))
             IN /\ plushpepe' = Integrate(plushpepe, Min(delta, MAX_DELTA))
                /\ \A i \in 1..Len(last'.tested) : last'.tested[i].x = ScrolledX(i, dx)
      ]_vars

\* C22, amended: a playing tick integrates the body and tests the boundaries
\* on it; on a hit no pipe is moved, recycled or tested.  Otherwise the pipes
\* are scrolled and those past the left edge recycled, and the overlap test
\* then goes over the pipes as recycling left them, with the body of that same
\* integration; its outcome is the one the scrolled, unrecycled pipes give.
C22_RecycleBeforeOverlapTest ==
    [][(last'.op = "tick" /\ last'.ran) =>
          \E delta \in Deltas :
             LET d == Min(delta, MAX_DELTA)
                 dx == StepMul(SCROLL_SPEED, d)
                 body == Integrate(plushpepe, d)
                 hitBoundary == body.y + Px(48) >= Px(800) \/ body.y < 0
                 scrolled == [i \in 1..Len(pipes) |-> [pipes[i] EXCEPT !.x = ScrolledX(i, dx)]]
             IN /\ plushpepe' = body
                /\ hitBoundary =>
                      /\ last'.tested = <<>> /\ last'.recycled = {}
                      /\ pipes' = pipes
                      /\ last'.over
                /\ ~hitBoundary =>
                      /\ last'.tested = pipes'
                      /\ Len(pipes') = Len(pipes)
                      /\ \A i \in 1..Len(pipes) :
                            /\ i \in last'.recycled <=> ScrolledX(i, dx) + Px(104) < 0
                            /\ pipes'[i].x = IF i \in last'.recycled
                                             THEN ScrolledX(i, dx) + Px(3 * 350)
                                             ELSE ScrolledX(i, dx)
                      /\ last'.over <=>
                            \E i \in 1..Len(pipes) : PipeCollision(body.y, last'.tested[i])
                      /\ last'.over <=>
                            \E i \in 1..Len(pipes) : PipeCollision(body.y, scrolled[i])
      ]_vars

\* C22 witness: a tick has recycled a pipe and then run the overlap test
C22_Witness ==
    /\ last.op = "tick" /\ last.ran
    /\ last.recycled # {}
    /\ last.tested = pipes


\* C23: whatever the time since the previous callback, the step handed to
\* update() is at most 32/16.67; in one tick a pipe moves at most 7.73 px and
\* the body at most 23.1 px downward (7.73 px is 618.4 and 23.1 px is 1848 of
\* the position unit; the products are compared exactly, the positions as
\* the model holds them).
C23_StepIsCapped ==
    [][last'.op = "tick" =>
          /\ last'.delta >= 0 /\ last'.delta <= 32000
          /\ SCROLL_SPEED * last'.delta * 10 <= 6184 * MS_PER_FRAME
          /\ last'.ran =>
                /\ plushpepe'.vel * 8 * last'.delta <= 1848 * MS_PER_FRAME
                /\ plushpepe'.y - plushpepe.y <= 1848
                /\ \A i \in 1..Len(pipes) :
                      i \notin last'.recycled => 
                         /\ (pipes[i].x - pipes'[i].x) * 10 <= 6184
                         /\ pipes[i].x - pipes'[i].x >= 0
      ]_vars

\* C23 witness: a playing tick that followed a stall ran with the capped step
\* on a body falling at the velocity cap
C23_Witness ==
    /\ last.op = "tick" /\ last.ran
    /\ last.delta = MAX_DELTA
    /\ plushpepe.vel = MAX_FALL_SPEED
    /\ sessionTicks = MaxClockTicks


\* C24: for a previous gap in the safe range, a call that draws the small
\* tier returns a gap at most 30 px from it, and a call that draws the medium
\* tier one at most 60 px from it.
C24_TierDeltas ==
    (/\ gapCall.out # NoGap /\ gapCall.prev # NoGap
     /\ gapCall.prev >= minGapY /\ gapCall.prev <= maxGapY) =>
        /\ gapCall.v < 1 => Abs(gapCall.out - gapCall.prev) <= Px(30)
        /\ (gapCall.v >= 1 /\ gapCall.v < 4) => Abs(gapCall.out - gapCall.prev) <= Px(60)


\* C25: a jump input read in the ready or the playing state integrates
\* nothing: it sets the velocity, the effect timer and (from ready) the game
\* state, and leaves the body's height and rotation, every pipe, the score
\* and the best score as they were.
C25_JumpIntegratesNothing ==
    [][(last'.op = "flap" /\ gameStateRef \in {"ready", "playing"}) =>
          /\ plushpepe'.y = plushpepe.y
          /\ plushpepe'.rot = plushpepe.rot
          /\ pipes' = pipes
          /\ globalScore' = globalScore
          /\ highScore' = highScore /\ storedBest' = storedBest
          /\ sessionTicks' = sessionTicks
          /\ gameState' = IF gameStateRef = "ready" THEN "playing" ELSE gameState
      ]_vars

\* C25 witness: a jump has just been taken in flight, between two ticks, with
\* a pipe already passed
C25_Witness ==
    /\ last.op = "flap"
    /\ gameStateRef = "playing" /\ gameState = "playing"
    /\ sessionTicks > 0
    /\ plushpepe.y # StartY
    /\ plushpepe.vel = JUMP_VELOCITY
    /\ globalScore >= 1


\* C26: no pipe that has been scored (x < 136 at its tick) horizontally
\* overlaps the hitbox: its bounds [x + 2, x + 102] and the hitbox [184, 232]
\* are apart, so the body cannot collide with a pipe already counted.
C26_ScoredPipeIsBehind ==
    \A i \in 1..Len(pipes) :
        pipes[i].scored =>
            ~(Px(232) > pipes[i].x + Px(2) /\ Px(184) < pipes[i].x + Px(102))


\* C27: once a tick has called handleGameOver, no tick before the restart
\* integrates the body, moves a pipe, changes the score or calls
\* handleGameOver and its best-score check again, whether or not the re-render
\* that copies the new state into gameStateRef.current has happened yet.
C27_NoTickAfterGameOver ==
    [][(gameState = "gameover" /\ last'.op = "tick") =>
          /\ ~last'.ran
          /\ ~last'.over
          /\ UNCHANGED <<plushpepe, pipes, globalScore, highScore, storedBest>>
      ]_vars


\* C28: the velocity is always between JUMP_VELOCITY (-6.5) and
\* MAX_FALL_SPEED (12); the rotation is clamp(7 * velocity, -30, 90) of the
\* last playing tick, 0 after a restart, and is left alone by every other
\* step; a playing tick computes the new velocity and height from the old
\* velocity, the old height and the step only.
C28_VelocityAndRotation ==
    /\ [](plushpepe.vel >= -65 /\ plushpepe.vel <= 120)
    /\ [][/\ (last'.op = "tick" /\ last'.ran) =>
                /\ plushpepe'.rot = Max(-300, Min(900, 7 * plushpepe'.vel))
                /\ plushpepe'.vel = Min(120, plushpepe.vel + StepMul(4, last'.delta))
                /\ plushpepe'.y = plushpepe.y + StepMul(plushpepe'.vel * 8, last'.delta)
          /\ restarts' # restarts => plushpepe'.rot = 0 /\ plushpepe'.vel = 0
          /\ (~(last'.op = "tick" /\ last'.ran) /\ restarts' = restarts) =>
                plushpepe'.rot = plushpepe.rot /\ plushpepe'.y = plushpepe.y
         ]_vars

\* C28 witness: after a restart the body has been tilted up by a jump and is
\* now falling at the velocity cap
C28_Witness ==
    /\ restarts = 1
    /\ last.op = "tick" /\ last.ran
    /\ plushpepe.vel = MAX_FALL_SPEED
    /\ plushpepe.rot = 840


\* b - a - k px in units of 2^-50 px, or FarApart when that is 2^25 units or more
FarApart == 4 * Limb
Dev64(a, b, k) ==
    LET dw == b.w - a.w - k
        dh == IF dw \in {-1, 0, 1} THEN b.fh - a.fh + dw * Limb ELSE 2
    IN IF dh \in {-1, 0, 1} THEN dh * Limb + (b.fl - a.fl) ELSE FarApart

\* C29 as stated: the pool holds 3 pipes, after every tick any two of them are
\* exactly 350 or 700 px apart, and a recycle moves a pipe 3 * 350 px further
\* than the scroll alone, to x > 576.
C29_ExactSpacing ==
    /\ Len(pipes) = 3
    /\ \A i \in 1..Len(pipes), j \in 1..Len(pipes) :
          i < j => \E k \in {350, 700, -350, -700} : Dev64(pipes[i].x, pipes[j].x, k) = 0
    /\ \A i \in last.recycled : pipes[i].x.w >= 576 /\ pipes[i].x # [w |-> 576, fh |-> 0, fl |-> 0]

\* C29, amended: the pool holds 3 pipes; after n ticks any two of them are
\* 350 or 700 px apart to within n * 2^-41 px, the rounding of the additions;
\* a recycle puts a pipe at x > 576.
C29_SpacingUpToRounding ==
    /\ Len(pipes) = 3
    /\ \A i \in 1..Len(pipes), j \in 1..Len(pipes) :
          i < j => \E k \in {350, 700, -350, -700} :
                      Abs(Dev64(pipes[i].x, pipes[j].x, k)) <= 512 * sessionTicks
    /\ \A i \in last.recycled : pipes[i].x.w >= 576 /\ pipes[i].x # [w |-> 576, fh |-> 0, fl |-> 0]

\* C29 witness: every pipe has been recycled, and two pipes are no longer a
\* whole number of intervals apart
C29_Witness ==
    /\ last.op = "tick" /\ last.recycled # {}
    /\ sessionTicks > 350
    /\ \E i \in 1..Len(pipes), j \in 1..Len(pipes) :
          i < j /\ \A k \in {350, 700, -350, -700} : Dev64(pipes[i].x, pipes[j].x, k) # 0


\* C30: one loop and one set of input handlers drive the game: after the
\* effect's cleanup has run, the frame callback it had scheduled and its
\* pointer and key handlers do nothing more, so no display frame integrates
\* the body twice and no key press calls flap() twice.
C30_OneLoopOneHandlerSet ==
    last.op \in {"tick", "key", "flap"} => last.calls = 1


============================================================================
